---- MODULE Spec2Model ----
(***************************************************************************)
(* Model of the user resource of go-fiber-gorm-starter: HTTP handler ->    *)
(* service -> repository -> users table.  Every request is served by its   *)
(* own worker; the workers share nothing but the database, so a request is *)
(* a sequence of atomic database calls, and the code between two calls     *)
(* belongs to the step of the call that follows it.  Go errors are records *)
(* [msg, is]: the text of Error() and the set of sentinel errors that      *)
(* errors.Is finds in the %w chain.  Timestamps are abstracted: created_at *)
(* is the insertion tick, deleted_at is NULL (FALSE) or set (TRUE),        *)
(* updated_at is left out.                                                 *)
(***************************************************************************)
EXTENDS Integers, Sequences, FiniteSets, TLC

\* ------------------------------------------------------------------ bounds
\* Number of HTTP requests served in one behaviour.
MaxReq == 3
\* Number of times the seed program is run in one behaviour.
MaxRuns == 2

\* ------------------------------------------------------------------ inputs
\* Request workers of the HTTP server (two requests can be in flight at once).
Procs == {"w1", "w2"}
\* Emails that requests carry.
Emails == {"a@x.com", "b@x.com"}

VARIABLES
    users,      \* the users table: the set of its rows
    inflight,   \* per worker: the request it is serving and where it is
    last,       \* the response written last, with the request it answers
    nreq,       \* number of requests begun
    cfg,        \* the configuration the server was started with
    seed        \* the seed program: its runs, and its transaction while it runs

vars == <<users, inflight, last, nreq, cfg, seed>>

\* ------------------------------------------------------------------ model.go
StatusActive == "active"
StatusInactive == "inactive"
StatusSuspended == "suspended"

\* The zero User; also stands for a nil *User.
NilUser == [ID |-> 0, Name |-> "", Email |-> "", Status |-> "",
            CreatedAt |-> 0, DeletedAt |-> FALSE]

\* A nil pointer field of UpdateUserRequest is <<>>, a set one is <<v>>.
NilPtr == <<>>
Ptr(v) == <<v>>
Deref(p) == p[1]

\* ToUser with inactive as the status of a request that has none.
Mut_ToUserInactive(r) ==
    [NilUser EXCEPT !.Name = r.Name, !.Email = r.Email,
                    !.Status = IF r.Status # "" THEN r.Status ELSE StatusInactive]

\* ToUser with the name copied into both fields.
Mut_ToUser(r) ==
    [NilUser EXCEPT !.Name = r.Name, !.Email = r.Name,
                    !.Status = IF r.Status # "" THEN r.Status ELSE StatusActive]

\* CreateUserRequest.ToUser
ToUser(r) ==
    [NilUser EXCEPT !.Name = r.Name, !.Email = r.Email,
                    !.Status = IF r.Status # "" THEN r.Status ELSE StatusActive]

\* User.BeforeCreate
BeforeCreate(u) ==
    IF u.Status = "" THEN [u EXCEPT !.Status = StatusActive] ELSE u

\* ApplyTo with the status assigned to the name as well.
Mut_ApplyTo(r, user) ==
    [user EXCEPT !.Name = IF r.Status # NilPtr THEN Deref(r.Status)
                          ELSE IF r.Name # NilPtr THEN Deref(r.Name) ELSE @,
                 !.Email = IF r.Email # NilPtr THEN Deref(r.Email) ELSE @,
                 !.Status = IF r.Status # NilPtr THEN Deref(r.Status) ELSE @]

\* UpdateUserRequest.ApplyTo
ApplyTo(r, user) ==
    [user EXCEPT !.Name = IF r.Name # NilPtr THEN Deref(r.Name) ELSE @,
                 !.Email = IF r.Email # NilPtr THEN Deref(r.Email) ELSE @,
                 !.Status = IF r.Status # NilPtr THEN Deref(r.Status) ELSE @]

\* ------------------------------------------------------------------ errors
NilErr == [msg |-> "", is |-> {}]

\* fmt.Errorf("<prefix>: %w", err)
Wrap(prefix, err) == [msg |-> prefix \o ": " \o err.msg, is |-> err.is]

\* fmt.Errorf("<text>") without %w: the chain is cut
Errorf(text) == [msg |-> text, is |-> {}]

\* errors.Is(err, target)
ErrorsIs(err, target) == target \in err.is

\* strings.HasPrefix
HasPrefix(s, pre) == Len(s) >= Len(pre) /\ SubSeq(s, 1, Len(pre)) = pre

\* strings.TrimPrefix
TrimPrefix(s, pre) == IF HasPrefix(s, pre) THEN SubSeq(s, Len(pre) + 1, Len(s)) ELSE s

Digits == <<"0", "1", "2", "3", "4", "5", "6", "7", "8", "9">>

\* %d of an unsigned integer
RECURSIVE Itoa(_)
Itoa(n) == IF n < 10 THEN Digits[n + 1] ELSE Itoa(n \div 10) \o Digits[(n % 10) + 1]

\* gorm.ErrRecordNotFound, gorm.ErrDuplicatedKey
ErrRecordNotFound == [msg |-> "record not found", is |-> {"ErrRecordNotFound"}]
ErrDuplicatedKey == [msg |-> "duplicated key not allowed", is |-> {"ErrDuplicatedKey"}]

\* gorm.Config.TranslateError as createGormConfig leaves it: the zero value.
TranslateError == FALSE

\* What gorm reports for a violated unique index: the driver's error, turned
\* into gorm.ErrDuplicatedKey only when the configuration asks for translation.
DuplicateEntry ==
    IF TranslateError THEN ErrDuplicatedKey
    ELSE [msg |-> "Error 1062 (23000): Duplicate entry", is |-> {}]

\* The driver's error for a violated CHECK constraint.
CheckViolated == [msg |-> "Error 3819 (HY000): Check constraint 'chk_users_status' is violated.",
                  is |-> {}]

\* The driver's error when the database cannot be reached.
BadConn == [msg |-> "driver: bad connection", is |-> {}]

\* ------------------------------------------------------------------ table
\* The table is the set of its rows; a row has the fields of User.

\* Rows that soft delete has not marked (gorm adds deleted_at IS NULL to every
\* query on a model with a gorm.DeletedAt field).
Live(tbl) == {r \in tbl : ~r.DeletedAt}

\* An id column that gives every inserted row the id 1.
Mut_NextID(tbl) == 1

\* id BIGINT PRIMARY KEY AUTO_INCREMENT: the id the next inserted row gets.
NextID(tbl) ==
    IF tbl = {} THEN 1
    ELSE 1 + (CHOOSE m \in {r.ID : r \in tbl} : \A r \in tbl : r.ID <= m)

\* A users table without the unique index on email.
Mut_UniqueEmailOK(tbl, id, email) == TRUE

\* email VARCHAR(255) NOT NULL UNIQUE: no row other than row id holds email,
\* soft-deleted rows included.
UniqueEmailOK(tbl, id, email) == \A r \in tbl : r.ID # id => r.Email # email

\* A users table without the CHECK constraint on status.
Mut_StatusCheckOK(status) == TRUE

\* CONSTRAINT chk_users_status CHECK (status IN (...))
StatusCheckOK(status) == status \in {StatusActive, StatusInactive, StatusSuspended}

\* The error of writing row u as row id, NilErr when no constraint is violated.
ConstraintError(tbl, id, u) ==
    IF ~UniqueEmailOK(tbl, id, u.Email) THEN DuplicateEntry
    ELSE IF ~StatusCheckOK(u.Status) THEN CheckViolated
    ELSE NilErr

\* ------------------------------------------------------------------ repository.go
\* Every repository operator takes the table and whether the database is
\* unreachable for this call (down), and returns [tbl, user, err].

\* An INSERT that stores the row although the CHECK constraint refuses it.
Mut_RepoCreate(tbl, user, down) ==
    LET u == BeforeCreate(user)
        id == NextID(tbl)
        row == [u EXCEPT !.ID = id, !.CreatedAt = id]
        e == IF down THEN BadConn ELSE ConstraintError(tbl, id, row)
    IN IF e # NilErr
       THEN [tbl |-> IF e = CheckViolated THEN tbl \cup {row} ELSE tbl, user |-> u,
             err |-> Wrap("failed to create user", e)]
       ELSE [tbl |-> tbl \cup {row}, user |-> row, err |-> NilErr]

\* repository.Create: INSERT; the id is the next auto-increment value.
RepoCreate(tbl, user, down) ==
    LET u == BeforeCreate(user)
        id == NextID(tbl)
        row == [u EXCEPT !.ID = id, !.CreatedAt = id]
        e == IF down THEN BadConn ELSE ConstraintError(tbl, id, row)
    IN IF e # NilErr
       THEN [tbl |-> tbl, user |-> u, err |-> Wrap("failed to create user", e)]
       ELSE [tbl |-> tbl \cup {row}, user |-> row, err |-> NilErr]

\* repository.GetByID: First(&user, id)
RepoGetByID(tbl, id, down) ==
    IF down
    THEN [tbl |-> tbl, user |-> NilUser, err |-> Wrap("failed to get user by id", BadConn)]
    ELSE IF \E r \in Live(tbl) : r.ID = id
    THEN [tbl |-> tbl, user |-> CHOOSE r \in Live(tbl) : r.ID = id, err |-> NilErr]
    ELSE [tbl |-> tbl, user |-> NilUser,
          err |-> Wrap("user not found with id " \o Itoa(id), ErrRecordNotFound)]

\* repository.GetByEmail: Where("email = ?", email).First(&user)
RepoGetByEmail(tbl, email, down) ==
    IF down
    THEN [tbl |-> tbl, user |-> NilUser, err |-> Wrap("failed to get user by email", BadConn)]
    ELSE IF \E r \in Live(tbl) : r.Email = email
    THEN [tbl |-> tbl, user |-> CHOOSE r \in Live(tbl) : r.Email = email, err |-> NilErr]
    ELSE [tbl |-> tbl, user |-> NilUser,
          err |-> Wrap("user not found with email " \o email, ErrRecordNotFound)]

\* repository.Exists: Model(&User{}).Where("id = ?", id).Count(&count); count > 0
RepoExists(tbl, id, down) ==
    IF down
    THEN [exists |-> FALSE, err |-> Wrap("failed to check user existence", BadConn)]
    ELSE [exists |-> Cardinality({r \in Live(tbl) : r.ID = id}) > 0, err |-> NilErr]

\* Delete as a hard delete (DELETE FROM users WHERE id = ?).
Mut_RepoDelete(tbl, id, down) ==
    IF down
    THEN [tbl |-> tbl, user |-> NilUser, err |-> Wrap("failed to delete user", BadConn)]
    ELSE [tbl |-> {r \in tbl : r.ID # id}, user |-> NilUser, err |-> NilErr]

\* repository.Delete: Delete(&User{}, id) is UPDATE users SET deleted_at = now
\* WHERE id = ? AND deleted_at IS NULL; no row matched is no error.
RepoDelete(tbl, id, down) ==
    IF down
    THEN [tbl |-> tbl, user |-> NilUser, err |-> Wrap("failed to delete user", BadConn)]
    ELSE [tbl |-> {IF r.ID = id /\ r \in Live(tbl) THEN [r EXCEPT !.DeletedAt = TRUE] ELSE r :
                     r \in tbl},
          user |-> NilUser, err |-> NilErr]

\* The columns gorm's Save writes: every column but the primary key and
\* created_at, deleted_at included.
SaveColumns(row, user) ==
    [row EXCEPT !.Name = user.Name, !.Email = user.Email, !.Status = user.Status,
                !.DeletedAt = user.DeletedAt]

\* repository.Update: Save(user) of a user with a non-zero id is UPDATE ... WHERE
\* id = ? AND deleted_at IS NULL and, when that matched no row and did not fail,
\* INSERT ... ON CONFLICT (id) DO UPDATE of all columns (which matches the row
\* whatever its deleted_at).  The service saves loaded rows only, and rows are
\* never removed, so row id is in the table.
RepoUpdate(tbl, user, down) ==
    LET e == IF down THEN BadConn ELSE ConstraintError(tbl, user.ID, user)
    IN IF e # NilErr
       THEN [tbl |-> tbl, user |-> user, err |-> Wrap("failed to update user", e)]
       ELSE [tbl |-> {IF r.ID = user.ID THEN SaveColumns(r, user) ELSE r : r \in tbl},
             user |-> user, err |-> NilErr]

Upper == <<"A", "B", "C", "D", "E", "F", "G", "H", "I", "J", "K", "L", "M",
           "N", "O", "P", "Q", "R", "S", "T", "U", "V", "W", "X", "Y", "Z">>
Lower == <<"a", "b", "c", "d", "e", "f", "g", "h", "i", "j", "k", "l", "m",
           "n", "o", "p", "q", "r", "s", "t", "u", "v", "w", "x", "y", "z">>

LowerChar(c) ==
    IF \E k \in 1..26 : Upper[k] = c THEN Lower[CHOOSE k \in 1..26 : Upper[k] = c] ELSE c

\* strings.ToLower, and SQL's LOWER()
RECURSIVE ToLower(_)
ToLower(s) ==
    IF Len(s) = 0 THEN "" ELSE LowerChar(SubSeq(s, 1, 1)) \o ToLower(SubSeq(s, 2, Len(s)))

\* s LIKE pattern: % stands for any run of characters, _ for any one character,
\* every other character for itself.
RECURSIVE Like(_, _)
Like(s, pattern) ==
    IF Len(pattern) = 0 THEN Len(s) = 0
    ELSE LET c == SubSeq(pattern, 1, 1)
             rest == SubSeq(pattern, 2, Len(pattern))
         IN IF c = "%" THEN \E k \in 0..Len(s) : Like(SubSeq(s, k + 1, Len(s)), rest)
            ELSE /\ Len(s) > 0
                 /\ c = "_" \/ c = SubSeq(s, 1, 1)
                 /\ Like(SubSeq(s, 2, Len(s)), rest)

\* repository.List: searchTerm
SearchTerm(query) == "%" \o ToLower(query.Search) \o "%"

\* The WHERE clause of List without the status condition.
Mut_ListMatches(tbl, query) ==
    {r \in Live(tbl) :
        query.Search # "" =>
              \/ Like(ToLower(r.Name), SearchTerm(query))
              \/ Like(ToLower(r.Email), SearchTerm(query))}

\* repository.List: the WHERE clause (gorm puts the OR condition in parentheses).
ListMatches(tbl, query) ==
    {r \in Live(tbl) :
        /\ query.Status # "" => r.Status = query.Status
        /\ query.Search # "" =>
              \/ Like(ToLower(r.Name), SearchTerm(query))
              \/ Like(ToLower(r.Email), SearchTerm(query))}

\* ORDER BY created_at DESC
RECURSIVE OrderByCreatedAtDesc(_)
OrderByCreatedAtDesc(rows) ==
    IF rows = {} THEN <<>>
    ELSE LET first == CHOOSE r \in rows : \A o \in rows : o.CreatedAt <= r.CreatedAt
         IN <<first>> \o OrderByCreatedAtDesc(rows \ {first})

\* LIMIT limit of a result, without the offset.
Mut_OffsetLimit(rows, offset, limit) ==
    SubSeq(rows, 1, IF limit < Len(rows) THEN limit ELSE Len(rows))

\* OFFSET offset LIMIT limit of a result
OffsetLimit(rows, offset, limit) ==
    SubSeq(rows, offset + 1, IF offset + limit < Len(rows) THEN offset + limit ELSE Len(rows))

\* repository.List, first query: Count(&total)
RepoListCount(tbl, query, down) ==
    IF down THEN [total |-> 0, err |-> Wrap("failed to count users", BadConn)]
    ELSE [total |-> Cardinality(ListMatches(tbl, query)), err |-> NilErr]

\* repository.List, second query: Offset().Limit().Order("created_at DESC").Find()
RepoListFind(tbl, query, down) ==
    IF down THEN [users |-> <<>>, err |-> Wrap("failed to list users", BadConn)]
    ELSE [users |-> OffsetLimit(OrderByCreatedAtDesc(ListMatches(tbl, query)),
                                query.Offset, query.Limit),
          err |-> NilErr]

\* Validate without the lower bound on the offset.
Mut_ValidateOffset(q) ==
    [q EXCEPT !.Limit = IF q.Limit <= 0 \/ q.Limit > 100 THEN 20 ELSE @]

\* Validate without the upper bound on the limit.
Mut_Validate(q) ==
    [q EXCEPT !.Limit = IF q.Limit <= 0 THEN 20 ELSE @,
              !.Offset = IF q.Offset < 0 THEN 0 ELSE @]

\* ListUsersQuery.Validate
Validate(q) ==
    [q EXCEPT !.Limit = IF q.Limit <= 0 \/ q.Limit > 100 THEN 20 ELSE @,
              !.Offset = IF q.Offset < 0 THEN 0 ELSE @]

\* ------------------------------------------------------------------ service.go
\* The duplicate check of service.Create with not-found treated as a failure.
Mut_CreateEmailCheck(r, email) ==
    IF r.err # NilErr
    THEN Wrap("failed to check email duplication", r.err)
    ELSE IF r.user # NilUser THEN Errorf("email already exists: " \o email)
    ELSE NilErr

\* service.Create: the outcome of the duplicate check, given what GetByEmail
\* returned; NilErr lets the create go on.
CreateEmailCheck(r, email) ==
    IF r.err # NilErr /\ ~ErrorsIs(r.err, "ErrRecordNotFound")
    THEN Wrap("failed to check email duplication", r.err)
    ELSE IF r.user # NilUser THEN Errorf("email already exists: " \o email)
    ELSE NilErr

\* service.Create: what is returned, given what repository.Create returned.
CreateResult(r) ==
    IF r.err # NilErr THEN [user |-> NilUser, err |-> Wrap("failed to create user", r.err)]
    ELSE [user |-> r.user, err |-> NilErr]

\* service.GetByID with one failure for every error of the repository.
Mut_ServiceGetByID(tbl, id, down) ==
    LET r == RepoGetByID(tbl, id, down)
    IN IF r.err # NilErr
       THEN [user |-> NilUser, err |-> Wrap("failed to get user", r.err)]
       ELSE [user |-> r.user, err |-> NilErr]

\* service.GetByID
ServiceGetByID(tbl, id, down) ==
    LET r == RepoGetByID(tbl, id, down)
    IN IF r.err # NilErr
       THEN IF ErrorsIs(r.err, "ErrRecordNotFound")
            THEN [user |-> NilUser, err |-> Errorf("user not found with id " \o Itoa(id))]
            ELSE [user |-> NilUser, err |-> Wrap("failed to get user", r.err)]
       ELSE [user |-> r.user, err |-> NilErr]

\* service.Update: the load of the existing user.
UpdateLoad(tbl, id, down) ==
    LET r == RepoGetByID(tbl, id, down)
    IN IF r.err # NilErr
       THEN IF ErrorsIs(r.err, "ErrRecordNotFound")
            THEN [user |-> NilUser, err |-> Errorf("user not found with id " \o Itoa(id))]
            ELSE [user |-> NilUser, err |-> Wrap("failed to get user for update", r.err)]
       ELSE [user |-> r.user, err |-> NilErr]

\* The duplicate check of service.Update run for every request with an email.
Mut_EmailChanges(req, user) == req.Email # NilPtr

\* service.Update: whether the duplicate check runs.
EmailChanges(req, user) == req.Email # NilPtr /\ Deref(req.Email) # user.Email

\* service.Update: the outcome of the duplicate check.
UpdateEmailCheck(r, email) ==
    IF r.err # NilErr /\ ~ErrorsIs(r.err, "ErrRecordNotFound")
    THEN Wrap("failed to check email duplication", r.err)
    ELSE IF r.user # NilUser THEN Errorf("email already exists: " \o email)
    ELSE NilErr

\* service.Update: what is returned, given what repository.Update returned.
UpdateResult(r) ==
    IF r.err # NilErr THEN [user |-> NilUser, err |-> Wrap("failed to update user", r.err)]
    ELSE [user |-> r.user, err |-> NilErr]

\* The existence check of service.Delete without the test of the result.
Mut_DeleteExistsCheck(r, id) ==
    IF r.err # NilErr THEN Wrap("failed to check user existence", r.err)
    ELSE NilErr

\* service.Delete: the outcome of the existence check; NilErr lets the delete go on.
DeleteExistsCheck(r, id) ==
    IF r.err # NilErr THEN Wrap("failed to check user existence", r.err)
    ELSE IF ~r.exists THEN Errorf("user not found with id " \o Itoa(id))
    ELSE NilErr

\* service.Delete: what is returned, given what repository.Delete returned.
DeleteResult(r) ==
    IF r.err # NilErr THEN Wrap("failed to delete user", r.err) ELSE NilErr

\* ------------------------------------------------------------------ handler.go
errEmailAlreadyExists == "email already exists"
errUserNotFound == "user not found"

StatusOK == 200
StatusCreated == 201
StatusNoContent == 204
StatusBadRequest == 400
StatusUnauthorized == 401
StatusNotFound == 404
StatusConflict == 409
StatusInternalServerError == 500
StatusServiceUnavailable == 503

\* The largest value of 32 bits, in decimal.
MaxUint32 == "4294967295"

DigitValue(c) == CHOOSE d \in 0..9 : Digits[d + 1] = c
IsDigit(c) == \E d \in 0..9 : Digits[d + 1] = c

RECURSIVE ParseDigits(_)
ParseDigits(s) ==
    IF Len(s) = 0 THEN 0
    ELSE 10 * ParseDigits(SubSeq(s, 1, Len(s) - 1)) + DigitValue(SubSeq(s, Len(s), Len(s)))

\* Whether the decimal string s is greater than the decimal string t of the
\* same length.
RECURSIVE DecimalGreater(_, _)
DecimalGreater(s, t) ==
    IF Len(s) = 0 THEN FALSE
    ELSE LET a == DigitValue(SubSeq(s, 1, 1))
             b == DigitValue(SubSeq(t, 1, 1))
         IN IF a # b THEN a > b
            ELSE DecimalGreater(SubSeq(s, 2, Len(s)), SubSeq(t, 2, Len(t)))

\* strconv.ParseUint(s, 10, 32): no sign, digits only, at most 32 bits.
ParseUint(s) ==
    IF Len(s) = 0 \/ \E i \in 1..Len(s) : ~IsDigit(SubSeq(s, i, i))
    THEN [ok |-> FALSE, val |-> 0]
    ELSE IF Len(s) > Len(MaxUint32) \/ (Len(s) = Len(MaxUint32) /\ DecimalGreater(s, MaxUint32))
    THEN [ok |-> FALSE, val |-> 0]
    ELSE [ok |-> TRUE, val |-> ParseDigits(s)]

\* The test the handlers make for a not-found failure.
IsNotFoundErr(err) ==
    \/ ErrorsIs(err, "ErrRecordNotFound")
    \/ /\ err.msg # ""
       /\ \/ err.msg = errUserNotFound
          \/ Len(err.msg) > 15 /\ SubSeq(err.msg, 1, 15) = errUserNotFound

\* The duplicate-email test with a slice one byte longer than the constant.
Mut_IsDuplicateErr(err) ==
    \/ ErrorsIs(err, "ErrDuplicatedKey")
    \/ /\ err.msg # ""
       /\ \/ err.msg = errEmailAlreadyExists
          \/ Len(err.msg) > 21 /\ SubSeq(err.msg, 1, 21) = errEmailAlreadyExists

\* The test the handlers make for a duplicate-email failure.
IsDuplicateErr(err) ==
    \/ ErrorsIs(err, "ErrDuplicatedKey")
    \/ /\ err.msg # ""
       /\ \/ err.msg = errEmailAlreadyExists
          \/ Len(err.msg) > 20 /\ SubSeq(err.msg, 1, 20) = errEmailAlreadyExists

\* The checks of Handler.Create without the one on the length of the name.
Mut_CreateValid(req) ==
    /\ req.Name # ""
    /\ req.Email # ""

\* Handler.Create: the checks made on a parsed body; TRUE when the body passes.
CreateValid(req) ==
    /\ req.Name # ""
    /\ req.Email # ""
    /\ ~(Len(req.Name) < 2 \/ Len(req.Name) > 100)

\* Handler.Update: the checks made on a parsed body.
UpdateValid(req) ==
    /\ ~(req.Name # NilPtr /\ (Deref(req.Name) = "" \/ Len(Deref(req.Name)) < 2
                               \/ Len(Deref(req.Name)) > 100))
    /\ ~(req.Email # NilPtr /\ Deref(req.Email) = "")

\* Handler.Create: the status answered for the service's error.
CreateStatus(err) ==
    IF err = NilErr THEN StatusCreated
    ELSE IF IsDuplicateErr(err) THEN StatusConflict
    ELSE StatusInternalServerError

\* Handler.GetByID: the status answered for the service's error.
GetByIDStatus(err) ==
    IF err = NilErr THEN StatusOK
    ELSE IF IsNotFoundErr(err) THEN StatusNotFound
    ELSE StatusInternalServerError

\* Handler.Update: the status answered for the service's error.
UpdateStatus(err) ==
    IF err = NilErr THEN StatusOK
    ELSE IF IsNotFoundErr(err) THEN StatusNotFound
    ELSE IF IsDuplicateErr(err) THEN StatusConflict
    ELSE StatusInternalServerError

\* Handler.Delete: the status answered for the service's error.
DeleteStatus(err) ==
    IF err = NilErr THEN StatusNoContent
    ELSE IF IsNotFoundErr(err) THEN StatusNotFound
    ELSE StatusInternalServerError

\* resp.SuccessWithPagination: the body of a list response.
SuccessWithPagination(data, offset, limit, total) ==
    [status |-> StatusOK, data |-> data, offset |-> offset, limit |-> limit, total |-> total]

\* Handler.List, service.List and repository.List served on table tbl with no
\* other request in between and the database reachable: QueryParser,
\* Validate (handler), Validate (service), Count, Find, the envelope.
HandlerList(tbl, raw) ==
    IF ~raw.parses
    THEN [status |-> StatusBadRequest, data |-> <<>>, offset |-> 0, limit |-> 0, total |-> 0]
    ELSE LET query == Validate(Validate(raw))
         IN SuccessWithPagination(RepoListFind(tbl, query, FALSE).users, query.Offset,
                                  query.Limit, RepoListCount(tbl, query, FALSE).total)

\* ------------------------------------------------------------------ requests
\* The body of a request that has none.
NoBody == [json |-> TRUE, Name |-> "", Email |-> "", Status |-> ""]

\* A parsed JSON body; an absent field of a create is "", of an update NilPtr.
Body(name, email, status) == [json |-> TRUE, Name |-> name, Email |-> email, Status |-> status]

\* The string of n copies of s.
RECURSIVE Repeat(_, _)
Repeat(s, n) == IF n = 0 THEN "" ELSE s \o Repeat(s, n - 1)

\* A name one character longer than the handlers accept.
LongName == Repeat("x", 101)

\* Bodies that the handlers reject: one that BodyParser cannot parse, an empty
\* name, a name of one character, a name of 101 characters, an empty email.
BadCreateBodies ==
    {[json |-> FALSE, Name |-> "", Email |-> "", Status |-> ""],
     Body("", "a@x.com", ""), Body("A", "a@x.com", ""), Body(LongName, "a@x.com", ""),
     Body("Al", "", "")}

BadUpdateBodies ==
    {[json |-> FALSE, Name |-> NilPtr, Email |-> NilPtr, Status |-> NilPtr],
     Body(Ptr(""), NilPtr, NilPtr), Body(Ptr("A"), NilPtr, NilPtr),
     Body(Ptr(LongName), NilPtr, NilPtr), Body(NilPtr, Ptr(""), NilPtr)}

\* A non-empty string that is not of the shape of an email address.
NoEmail == "nomail"

\* The requests of a client that sends one request at a time: "" is an omitted
\* status, "bogus" is outside the enumeration; id 3 is never assigned, "abc" is
\* not a number, "-1" has a sign, "4294967296" is 2^32.
SeqCreateBodies ==
    {Body("Al", e, st) : e \in Emails, st \in {"", StatusInactive, "bogus"}}
    \cup {Body("Bo", e, "") : e \in Emails}
    \cup {Body("Al", NoEmail, "")}
    \cup BadCreateBodies

SeqUpdateBodies ==
    {Body(NilPtr, NilPtr, NilPtr), Body(Ptr("Bo"), NilPtr, NilPtr),
     Body(NilPtr, NilPtr, Ptr(StatusInactive)), Body(NilPtr, NilPtr, Ptr("bogus")),
     Body(Ptr("Bo"), Ptr("b@x.com"), Ptr(StatusInactive))}
    \cup {Body(NilPtr, Ptr(e), NilPtr) : e \in Emails \cup {NoEmail}}
    \cup BadUpdateBodies

SeqIdParams == {"1", "2", "3", "abc", "-1", "4294967296"}

\* A query string that QueryParser rejects (limit=abc).
MalformedQuery == [parses |-> FALSE, Offset |-> 0, Limit |-> 0, Status |-> "", Search |-> ""]

Query(offset, limit, status, search) ==
    [parses |-> TRUE, Offset |-> offset, Limit |-> limit, Status |-> status,
     Search |-> search]

SeqQueries ==
    {Query(o, l, st, se) : o \in {0, 1}, l \in {0, 1}, st \in {"", StatusInactive},
                           se \in {"", "AL"}}
    \cup {Query(-1, 101, "", ""), MalformedQuery}

\* The requests of clients that send requests at the same time.
ConcCreateBodies == {Body("Al", e, st) : e \in Emails, st \in {"", "bogus"}}

ConcUpdateBodies ==
    {Body(Ptr("Bo"), NilPtr, NilPtr), Body(NilPtr, NilPtr, Ptr(StatusInactive)),
     Body(NilPtr, Ptr("a@x.com"), NilPtr), Body(NilPtr, Ptr("b@x.com"), NilPtr),
     Body(NilPtr, NilPtr, Ptr("bogus")), Body(Ptr("Bo"), Ptr("b@x.com"), Ptr(StatusInactive))}

ConcIdParams == {"1", "2"}

ConcQueries == {Query(0, 0, "", ""), Query(0, 1, StatusInactive, "")}

\* ------------------------------------------------------------------ state
Idle == [pc |-> "idle", hdr |-> "", param |-> "", id |-> 0, req |-> NoBody, raw |-> NoBody,
         user |-> NilUser, total |-> 0, after |-> 0, fresh |-> FALSE]

NoResponse ==
    [seq |-> 0, op |-> "none", hdr |-> "", param |-> "", id |-> 0, req |-> NoBody, status |-> 0,
     code |-> "", checks |-> "", ping |-> "", err |-> NilErr,
     user |-> NilUser, old |-> NilUser, raw |-> NoBody, data |-> <<>>, offset |-> 0,
     limit |-> 0, total |-> 0, after |-> 0, fresh |-> FALSE]

\* The response to request (op, id, req): its status, the service's error, the
\* user in its body.  History kept with it: after is the number of responses
\* written before the request made its first database call, fresh (of a create)
\* is whether no row held the email then, old (of an update) is the row as the
\* service loaded it, param is the :id of the path as it was sent, raw (of a
\* list) is the query as it was sent.
Answer(op, id, req, after, status, err, user) ==
    [NoResponse EXCEPT !.seq = last.seq + 1, !.op = op, !.id = id, !.req = req,
                       !.status = status, !.err = err, !.user = user, !.after = after]

\* config.Config as the environment gives it when API_KEY is not set.
DefaultConfig == [Env |-> "local", APIKey |-> "", MetricsEnabled |-> TRUE]

\* Config.IsDev
IsDev(c) == c.Env = "dev" \/ c.Env = "local"

\* The seed program when it is not running: runs is the number of runs begun,
\* exit how the last run ended, inserted the insertedCount of the last run; i
\* and tx are the position in seedUsers and the rows inserted in the open
\* transaction while it runs.
NoSeed == [pc |-> "off", runs |-> 0, exit |-> "", i |-> 0, tx |-> {}, inserted |-> 0]

\* The server after construction, started with configuration c.
Started(c) ==
    /\ users = {}
    /\ inflight = [p \in Procs |-> Idle]
    /\ last = NoResponse
    /\ nreq = 0
    /\ cfg = c
    /\ seed = NoSeed

Init == Started(DefaultConfig)

\* Response a, to a request whose path held param as its :id.
WithParam(a, param) == [a EXCEPT !.param = param]

\* Worker p writes response a and is free again.
Respond(p, a) ==
    /\ last' = a
    /\ inflight' = [inflight EXCEPT ![p] = Idle]
    /\ UNCHANGED <<cfg, seed>>

\* Worker p goes on to step pc of its request.
Continue(p, pc, param, id, req, user, fresh) ==
    /\ inflight' = [inflight EXCEPT ![p] =
                      [Idle EXCEPT !.pc = pc, !.param = param, !.id = id, !.req = req,
                                   !.user = user,
                                   !.after = IF inflight[p].pc \in {"idle", "next"}
                                             THEN last.seq ELSE inflight[p].after,
                                   !.fresh = fresh]]
    /\ UNCHANGED <<last, cfg, seed>>

\* A request reaches a route handler on worker p: straight away when no API
\* key is configured (Router.Setup mounts no APIKey middleware then), after the
\* middleware called c.Next() otherwise.
Begins(p) ==
    /\ inflight[p].pc = (IF cfg.APIKey = "" THEN "idle" ELSE "next")
    /\ nreq < MaxReq /\ nreq' = nreq + 1

\* ------------------------------------------------------------------ POST /v1/users
\* Handler.Create up to and including service.Create's GetByEmail.
CreateBegin(p, bodies) ==
    /\ Begins(p)
    /\ \E req \in bodies, down \in BOOLEAN :
         IF ~req.json \/ ~CreateValid(req)
         THEN Respond(p, Answer("create", 0, req, last.seq, StatusBadRequest, NilErr, NilUser))
         ELSE LET err == CreateEmailCheck(RepoGetByEmail(users, req.Email, down), req.Email)
              IN IF err # NilErr
                 THEN Respond(p, Answer("create", 0, req, last.seq, CreateStatus(err), err,
                                        NilUser))
                 ELSE Continue(p, "create_insert", "", 0, req, ToUser(req),
                               \A r \in users : r.Email # req.Email)
    /\ UNCHANGED users

\* service.Create's repository.Create, and the handler's response.
CreateInsert(p) ==
    /\ inflight[p].pc = "create_insert"
    /\ \E down \in BOOLEAN :
         LET r == RepoCreate(users, inflight[p].user, down)
             res == CreateResult(r)
         IN /\ users' = r.tbl
            /\ Respond(p, [Answer("create", 0, inflight[p].req, inflight[p].after,
                                  CreateStatus(res.err), res.err, res.user)
                             EXCEPT !.fresh = inflight[p].fresh])
    /\ UNCHANGED nreq

\* ------------------------------------------------------------------ GET /v1/users/:id
GetByID(p, params) ==
    /\ Begins(p)
    /\ \E param \in params, down \in BOOLEAN :
         LET id == ParseUint(param)
         IN IF ~id.ok
            THEN Respond(p, WithParam(Answer("get", 0, NoBody, last.seq, StatusBadRequest,
                                             NilErr, NilUser), param))
            ELSE LET res == ServiceGetByID(users, id.val, down)
                 IN Respond(p, WithParam(Answer("get", id.val, NoBody, last.seq,
                                                GetByIDStatus(res.err), res.err, res.user),
                                         param))
    /\ UNCHANGED users

\* ------------------------------------------------------------------ PUT /v1/users/:id
\* Handler.Update up to and including service.Update's GetByID.
UpdateBegin(p, params, bodies) ==
    /\ Begins(p)
    /\ \E param \in params, req \in bodies, down \in BOOLEAN :
         LET id == ParseUint(param)
         IN IF ~id.ok \/ ~req.json \/ ~UpdateValid(req)
            THEN Respond(p, WithParam(Answer("update", id.val, req, last.seq,
                                             StatusBadRequest, NilErr, NilUser), param))
            ELSE LET res == UpdateLoad(users, id.val, down)
                 IN IF res.err # NilErr
                    THEN Respond(p, WithParam(Answer("update", id.val, req, last.seq,
                                                     UpdateStatus(res.err), res.err, NilUser),
                                              param))
                    ELSE Continue(p, IF EmailChanges(req, res.user) THEN "update_check"
                                     ELSE "update_save", param, id.val, req, res.user, FALSE)
    /\ UNCHANGED users

\* service.Update's GetByEmail.
UpdateCheck(p) ==
    /\ inflight[p].pc = "update_check"
    /\ \E down \in BOOLEAN :
         LET w == inflight[p]
             email == Deref(w.req.Email)
             err == UpdateEmailCheck(RepoGetByEmail(users, email, down), email)
         IN IF err # NilErr
            THEN Respond(p, [Answer("update", w.id, w.req, w.after, UpdateStatus(err), err,
                                    NilUser) EXCEPT !.old = w.user, !.param = w.param])
            ELSE Continue(p, "update_save", w.param, w.id, w.req, w.user, FALSE)
    /\ UNCHANGED <<users, nreq>>

\* service.Update's ApplyTo and repository.Update, and the handler's response.
UpdateSave(p) ==
    /\ inflight[p].pc = "update_save"
    /\ \E down \in BOOLEAN :
         LET w == inflight[p]
             r == RepoUpdate(users, ApplyTo(w.req, w.user), down)
             res == UpdateResult(r)
         IN /\ users' = r.tbl
            /\ Respond(p, [Answer("update", w.id, w.req, w.after, UpdateStatus(res.err),
                                  res.err, res.user)
                             EXCEPT !.old = w.user, !.param = w.param])
    /\ UNCHANGED nreq

\* ------------------------------------------------------------------ DELETE /v1/users/:id
\* Handler.Delete up to and including service.Delete's Exists.
DeleteBegin(p, params) ==
    /\ Begins(p)
    /\ \E param \in params, down \in BOOLEAN :
         LET id == ParseUint(param)
         IN IF ~id.ok
            THEN Respond(p, WithParam(Answer("delete", 0, NoBody, last.seq, StatusBadRequest,
                                             NilErr, NilUser), param))
            ELSE LET err == DeleteExistsCheck(RepoExists(users, id.val, down), id.val)
                 IN IF err # NilErr
                    THEN Respond(p, WithParam(Answer("delete", id.val, NoBody, last.seq,
                                                     DeleteStatus(err), err, NilUser), param))
                    ELSE Continue(p, "delete_delete", param, id.val, NoBody, NilUser, FALSE)
    /\ UNCHANGED users

\* service.Delete's repository.Delete, and the handler's response.
DeleteFinish(p) ==
    /\ inflight[p].pc = "delete_delete"
    /\ \E down \in BOOLEAN :
         LET w == inflight[p]
             r == RepoDelete(users, w.id, down)
             err == DeleteResult(r)
         IN /\ users' = r.tbl
            /\ Respond(p, WithParam(Answer("delete", w.id, NoBody, w.after, DeleteStatus(err),
                                           err, NilUser), w.param))
    /\ UNCHANGED nreq

\* ------------------------------------------------------------------ GET /v1/users
\* Handler.List up to and including repository.List's Count; the handler and
\* the service both validate the query.
ListBegin(p, queries) ==
    /\ Begins(p)
    /\ \E raw \in queries, down \in BOOLEAN :
         IF ~raw.parses
         THEN Respond(p, [Answer("list", 0, raw, last.seq, StatusBadRequest, NilErr, NilUser)
                            EXCEPT !.raw = raw])
         ELSE LET query == Validate(Validate(raw))
                  r == RepoListCount(users, query, down)
              IN IF r.err # NilErr
                 THEN Respond(p, [Answer("list", 0, query, last.seq,
                                         StatusInternalServerError,
                                         Wrap("failed to list users", r.err), NilUser)
                                    EXCEPT !.raw = raw])
                 ELSE /\ inflight' = [inflight EXCEPT ![p] =
                                        [Idle EXCEPT !.pc = "list_find", !.req = query,
                                                     !.raw = raw, !.total = r.total,
                                                     !.after = last.seq]]
                      /\ UNCHANGED <<last, cfg, seed>>
    /\ UNCHANGED users

\* repository.List's Find, and the handler's response with its pagination.
ListFind(p) ==
    /\ inflight[p].pc = "list_find"
    /\ \E down \in BOOLEAN :
         LET w == inflight[p]
             r == RepoListFind(users, w.req, down)
         IN IF r.err # NilErr
            THEN Respond(p, [Answer("list", 0, w.req, w.after, StatusInternalServerError,
                                    Wrap("failed to list users", r.err), NilUser)
                               EXCEPT !.raw = w.raw])
            ELSE LET body == SuccessWithPagination(r.users, w.req.Offset, w.req.Limit, w.total)
                 IN Respond(p, [Answer("list", 0, w.req, w.after, body.status, NilErr, NilUser)
                                  EXCEPT !.raw = w.raw, !.data = body.data,
                                         !.offset = body.offset, !.limit = body.limit,
                                         !.total = body.total])
    /\ UNCHANGED <<users, nreq>>

\* ------------------------------------------------------------------ middleware
\* The Authorization headers that clients send: none, the key alone, the key as
\* a bearer token, another key, the scheme in lower case.
Headers == {"", "k1", "Bearer k1", "Bearer k2", "bearer k1"}

\* The API key middleware without the comparison of the key.
Mut_APIKeyPasses(c, authHeader) ==
    \/ c.APIKey = ""
    \/ /\ authHeader # ""
       /\ HasPrefix(authHeader, "Bearer ")

\* middleware.APIKey: whether the middleware calls c.Next().
APIKeyPasses(c, authHeader) ==
    \/ c.APIKey = ""
    \/ /\ authHeader # ""
       /\ HasPrefix(authHeader, "Bearer ")
       /\ TrimPrefix(authHeader, "Bearer ") = c.APIKey

\* A request arrives on worker p of a server that mounted the API key
\* middleware (Router.Setup mounts it, before every route, when a key is
\* configured): it is answered 401, or goes on to the handler of its route.
APIKey(p, headers) ==
    /\ cfg.APIKey # ""
    /\ inflight[p].pc = "idle" /\ nreq < MaxReq
    /\ \E authHeader \in headers :
         IF APIKeyPasses(cfg, authHeader)
         THEN /\ inflight' = [inflight EXCEPT ![p] =
                                [Idle EXCEPT !.pc = "next", !.hdr = authHeader]]
              /\ UNCHANGED <<last, nreq, cfg, seed>>
         ELSE /\ Respond(p, [Answer("auth", 0, NoBody, last.seq, StatusUnauthorized, NilErr,
                                    NilUser) EXCEPT !.hdr = authHeader])
              /\ nreq' = nreq + 1
    /\ UNCHANGED users

\* ------------------------------------------------------------------ GET /health, /ready, /metrics
\* health.Handler.Health
Health(p) ==
    /\ Begins(p)
    /\ Respond(p, Answer("health", 0, NoBody, last.seq, StatusOK, NilErr, NilUser))
    /\ UNCHANGED users

\* What the ping of the database can come to: an answer, a refused connection,
\* no answer within the timeout of one second; "nodb" is a gorm.DB that has no
\* sql.DB under it.
Pings == {"ok", "refused", "timeout", "nodb"}

\* context.DeadlineExceeded
DeadlineExceeded == [msg |-> "context deadline exceeded", is |-> {"DeadlineExceeded"}]

\* HealthCheck that takes only a refused connection as a failure.
Mut_HealthCheck(ping) ==
    IF ping = "refused" THEN BadConn
    ELSE NilErr

\* db.HealthCheck: db.DB(), then PingContext under a timeout of one second.
HealthCheck(ping) ==
    IF ping = "nodb" THEN Wrap("failed to get underlying sql.DB", BadConn)
    ELSE IF ping = "refused" THEN BadConn
    ELSE IF ping = "timeout" THEN DeadlineExceeded
    ELSE NilErr

\* health.Handler.Ready: the response for what HealthCheck returned.
ReadyResponse(err) ==
    IF err # NilErr
    THEN [status |-> StatusServiceUnavailable, code |-> "SERVICE_UNAVAILABLE",
          checks |-> "fail"]
    ELSE [status |-> StatusOK, code |-> "", checks |-> "ok"]

\* health.Handler.Ready
Ready(p) ==
    /\ Begins(p)
    /\ \E ping \in Pings :
         LET err == HealthCheck(ping)
             r == ReadyResponse(err)
         IN Respond(p, [Answer("ready", 0, NoBody, last.seq, r.status, err, NilUser)
                          EXCEPT !.code = r.code, !.checks = r.checks, !.ping = ping])
    /\ UNCHANGED users

\* The metrics route, mounted when metrics are enabled.
Metrics(p) ==
    /\ cfg.MetricsEnabled
    /\ Begins(p)
    /\ Respond(p, Answer("metrics", 0, NoBody, last.seq, StatusOK, NilErr, NilUser))
    /\ UNCHANGED users

\* ------------------------------------------------------------------ specification
\* Two workers serve requests at the same time.
Next ==
    \E p \in Procs :
        \/ CreateBegin(p, ConcCreateBodies)
        \/ CreateInsert(p)
        \/ GetByID(p, ConcIdParams)
        \/ UpdateBegin(p, ConcIdParams, ConcUpdateBodies)
        \/ UpdateCheck(p)
        \/ UpdateSave(p)
        \/ DeleteBegin(p, ConcIdParams)
        \/ DeleteFinish(p)
        \/ ListBegin(p, ConcQueries)
        \/ ListFind(p)

Spec == Init /\ [][Next]_vars

\* One client sends one request at a time, of a wider range.
NextSeq ==
    \/ CreateBegin("w1", SeqCreateBodies)
    \/ CreateInsert("w1")
    \/ GetByID("w1", SeqIdParams)
    \/ UpdateBegin("w1", SeqIdParams, SeqUpdateBodies)
    \/ UpdateCheck("w1")
    \/ UpdateSave("w1")
    \/ DeleteBegin("w1", SeqIdParams)
    \/ DeleteFinish("w1")
    \/ ListBegin("w1", SeqQueries)
    \/ ListFind("w1")

SpecSeq == Init /\ [][NextSeq]_vars

\* The server is started with or without an API key; one client sends
\* requests, with every kind of Authorization header, to every route.
InitKey == \E key \in {"", "k1"} : Started([DefaultConfig EXCEPT !.APIKey = key])

NextKey ==
    \/ APIKey("w1", Headers)
    \/ CreateBegin("w1", ConcCreateBodies)
    \/ CreateInsert("w1")
    \/ GetByID("w1", ConcIdParams)
    \/ UpdateBegin("w1", ConcIdParams, ConcUpdateBodies)
    \/ UpdateCheck("w1")
    \/ UpdateSave("w1")
    \/ DeleteBegin("w1", ConcIdParams)
    \/ DeleteFinish("w1")
    \/ ListBegin("w1", ConcQueries)
    \/ ListFind("w1")
    \/ Health("w1")
    \/ Ready("w1")
    \/ Metrics("w1")

SpecKey == InitKey /\ [][NextKey]_vars

\* ------------------------------------------------------------------ cmd/seed
\* seedUsers
SeedUser(name, email, status) ==
    [NilUser EXCEPT !.Name = name, !.Email = email, !.Status = status]

SeedUsers ==
    <<SeedUser("John Doe", "john.doe@example.com", StatusActive),
      SeedUser("Jane Smith", "jane.smith@example.com", StatusActive),
      SeedUser("Bob Johnson", "bob.johnson@example.com", StatusInactive),
      SeedUser("Alice Brown", "alice.brown@example.com", StatusActive),
      SeedUser("Charlie Wilson", "charlie.wilson@example.com", StatusSuspended),
      SeedUser("Diana Davis", "diana.davis@example.com", StatusActive),
      SeedUser("Eve Miller", "eve.miller@example.com", StatusActive),
      SeedUser("Frank Garcia", "frank.garcia@example.com", StatusInactive),
      SeedUser("Grace Martinez", "grace.martinez@example.com", StatusActive),
      SeedUser("Henry Rodriguez", "henry.rodriguez@example.com", StatusActive)>>

\* What the operator types at the prompt "continue and add seed data? (y/N)";
\* "" is a line that Scanln cannot read.
Responses == {"y", "Y", "n", "yes", ""}

\* A rollback that keeps the rows of the transaction.
Mut_Rollback(tbl, tx) == tbl \cup tx

\* tx.Rollback(), and the end of a process whose transaction is open: the
\* table without the rows of the transaction.
Rollback(tbl, tx) == tbl

\* tx.Commit(): the table with the rows of the transaction.
Commit(tbl, tx) == tbl \cup tx

\* The run of the seed program ends with exit and the table tbl.
SeedEnds(exit, inserted, tbl) ==
    /\ seed' = [NoSeed EXCEPT !.runs = seed.runs, !.exit = exit, !.inserted = inserted]
    /\ users' = tbl

\* main up to database.Begin(): the environment, the connection, the count of
\* the users and the prompt.
SeedStart ==
    /\ seed.pc = "off" /\ seed.runs < MaxRuns
    /\ \E down \in BOOLEAN, response \in Responses :
         LET run == [seed EXCEPT !.runs = @ + 1]
             userCount == Cardinality(Live(users))
         IN IF ~IsDev(cfg)
            THEN seed' = [run EXCEPT !.exit = "not dev", !.inserted = 0]
            ELSE IF down
            THEN seed' = [run EXCEPT !.exit = "count failed", !.inserted = 0]
            ELSE IF userCount > 0 /\ response = ""
            THEN seed' = [run EXCEPT !.exit = "input failed", !.inserted = 0]
            ELSE IF userCount > 0 /\ response # "y" /\ response # "Y"
            THEN seed' = [run EXCEPT !.exit = "canceled", !.inserted = 0]
            ELSE seed' = [run EXCEPT !.pc = "loop", !.i = 1, !.tx = {}, !.inserted = 0]
    /\ UNCHANGED <<users, inflight, last, nreq, cfg>>

\* One turn of the loop over seedUsers: First by email within the transaction,
\* then either the skip or Create; a failed Create rolls back and ends the run.
SeedInsert ==
    /\ seed.pc = "loop" /\ seed.i <= Len(SeedUsers)
    /\ \E down \in BOOLEAN, lost \in BOOLEAN :
         LET seedUser == SeedUsers[seed.i]
             seen == users \cup seed.tx
             found == ~down /\ \E r \in Live(seen) : r.Email = seedUser.Email
             r == RepoCreate(seen, seedUser, lost)
         IN IF found
            THEN /\ seed' = [seed EXCEPT !.i = @ + 1]
                 /\ UNCHANGED users
            ELSE IF r.err # NilErr
            THEN SeedEnds("create failed", seed.inserted, Rollback(users, seed.tx))
            ELSE /\ seed' = [seed EXCEPT !.i = @ + 1, !.tx = @ \cup {r.user},
                                         !.inserted = @ + 1]
                 /\ UNCHANGED users
    /\ UNCHANGED <<inflight, last, nreq, cfg>>

\* tx.Commit() after the loop.
SeedCommit ==
    /\ seed.pc = "loop" /\ seed.i > Len(SeedUsers)
    /\ \E down \in BOOLEAN :
         IF down THEN SeedEnds("commit failed", seed.inserted, Rollback(users, seed.tx))
         ELSE SeedEnds("completed", seed.inserted, Commit(users, seed.tx))
    /\ UNCHANGED <<inflight, last, nreq, cfg>>

\* The tables that the seed program is run on: the first and the third seed
\* user are not there, live or soft-deleted, and a user that is no seed user
\* is there or not.
PreRow(id, user, state) ==
    IF state = "absent" THEN {}
    ELSE {[user EXCEPT !.ID = id, !.CreatedAt = id, !.DeletedAt = (state = "deleted")]}

PreTables ==
    {PreRow(1, SeedUsers[1], s1) \cup PreRow(2, SeedUsers[3], s3)
        \cup PreRow(3, SeedUser("Al", "a@x.com", StatusActive), other) :
     s1 \in {"absent", "live", "deleted"}, s3 \in {"absent", "live", "deleted"},
     other \in {"absent", "live"}}

\* The seed program is run, one run after the other, in some environment on
\* some table.
InitSeed ==
    \E env \in {"dev", "local", "prod"}, tbl \in PreTables :
        /\ users = tbl
        /\ inflight = [p \in Procs |-> Idle]
        /\ last = NoResponse
        /\ nreq = 0
        /\ cfg = [DefaultConfig EXCEPT !.Env = env]
        /\ seed = NoSeed

NextSeed ==
    \/ SeedStart
    \/ SeedInsert
    \/ SeedCommit

SpecSeed == InitSeed /\ [][NextSeed]_vars

\* ------------------------------------------------------------------ properties
\* Whether err wraps the driver error root (the root's text ends the message).
RootIs(err, root) ==
    /\ Len(err.msg) >= Len(root.msg)
    /\ SubSeq(err.msg, Len(err.msg) - Len(root.msg) + 1, Len(err.msg)) = root.msg

\* The last response is to a request that found the database unreachable.
Down(a) == RootIs(a.err, BadConn)

\* The ids of the rows, and of the live rows.
LiveIDs == {r.ID : r \in Live(users)}
DeletedIDs == {r.ID : r \in users \ Live(users)}

\* C1: a GET /v1/users/:id whose id matches no live row is answered 404 (the
\* database being reachable).
C1_GetMissingIs404 ==
    (last.op = "get" /\ last.status # StatusBadRequest /\ ~Down(last)
        /\ last.id \notin LiveIDs)
    => last.status = StatusNotFound

\* C2: when a create was answered 201 and the next request, begun after that
\* answer, is a create with the same email and a valid name, it is answered 409
\* and exactly one row holds the email.
C2_SecondCreateConflicts ==
    [][(/\ last.op = "create" /\ last.status = StatusCreated
        /\ last'.seq = last.seq + 1 /\ last'.after = last.seq
        /\ last'.op = "create" /\ last'.req.json /\ CreateValid(last'.req)
        /\ last'.req.Email = last.req.Email /\ ~Down(last'))
       => (/\ last'.status = StatusConflict
           /\ Cardinality({r \in users' : r.Email = last.req.Email}) = 1)]_vars

\* Two requests were served, one after the other; the second is a create
\* answered 409 for the email of the only row, which the first one created.
C2_Witness ==
    /\ nreq = 2 /\ last.seq = 2 /\ last.after = 1
    /\ last.op = "create" /\ last.status = StatusConflict
    /\ Cardinality(users) = 1
    /\ \A r \in users : r.Email = last.req.Email /\ ~r.DeletedAt

\* C3: when a delete was answered 204 and the next request, begun after that
\* answer, fetches or deletes the same id, it is answered 404.
C3_DeletedIsNotFound ==
    [][(/\ last.op = "delete" /\ last.status = StatusNoContent
        /\ last'.seq = last.seq + 1 /\ last'.after = last.seq
        /\ last'.op \in {"get", "delete"} /\ last'.status # StatusBadRequest
        /\ last'.id = last.id /\ ~Down(last'))
       => last'.status = StatusNotFound]_vars

\* C4: no two rows of the table, live or soft-deleted, hold the same email.
C4_EmailUnique ==
    \A r1 \in users, r2 \in users : r1.Email = r2.Email => r1.ID = r2.ID

\* Two creates passed the duplicate check for the same email before either
\* inserted.
C4_Witness ==
    /\ inflight["w1"].pc = "create_insert" /\ inflight["w2"].pc = "create_insert"
    /\ inflight["w1"].req.Email = inflight["w2"].req.Email

\* C5: a create that passed the duplicate check (no row held its email) and
\* whose insert then broke the unique index is answered 409.
C5_RaceLoserConflicts ==
    (last.op = "create" /\ last.fresh /\ RootIs(last.err, DuplicateEntry))
    => last.status = StatusConflict

\* A create lost the race: no row held its email when it checked, and its
\* insert broke the unique index.
C5_Witness ==
    /\ last.op = "create" /\ last.fresh /\ RootIs(last.err, DuplicateEntry)
    /\ \E r \in Live(users) : r.Email = last.req.Email

C7_NewEmailCreated ==
    (last.op = "create" /\ last.fresh /\ CreateValid(last.req) /\ ~Down(last))
    => /\ last.status = StatusCreated
       /\ last.user.ID # 0
       /\ last.user.Name = last.req.Name
       /\ last.user.Email = last.req.Email

\* C7, amended: the same, for a request whose status is omitted or one of the
\* three values and whose email no row holds when the insert executes either.
C7_NewEmailValidStatusCreated ==
    (/\ last.op = "create" /\ last.fresh /\ CreateValid(last.req) /\ ~Down(last)
     /\ (last.req.Status = "" \/ StatusCheckOK(last.req.Status))
     /\ ~RootIs(last.err, DuplicateEntry))
    => /\ last.status = StatusCreated
       /\ last.user.ID # 0
       /\ last.user.Name = last.req.Name
       /\ last.user.Email = last.req.Email
       /\ last.user \in users

\* A create of a new email was answered 201.
C7_Witness ==
    /\ last.op = "create" /\ last.fresh /\ last.status = StatusCreated
    /\ last.user.ID # 0 /\ last.user \in users

\* C8: an update answered 200 returns the row it loaded with exactly the fields
\* of the request overwritten, under the same id, and that is the row stored;
\* a request with only a status leaves name and email as they were loaded.
C8_UpdateMerges ==
    (last.op = "update" /\ last.status = StatusOK)
    => /\ last.user.ID = last.id /\ last.old.ID = last.id
       /\ last.user.Name = IF last.req.Name = NilPtr THEN last.old.Name
                           ELSE Deref(last.req.Name)
       /\ last.user.Email = IF last.req.Email = NilPtr THEN last.old.Email
                            ELSE Deref(last.req.Email)
       /\ last.user.Status = IF last.req.Status = NilPtr THEN last.old.Status
                             ELSE Deref(last.req.Status)
       /\ last.user.CreatedAt = last.old.CreatedAt
       /\ \E r \in users :
            /\ r.ID = last.id /\ r.Name = last.user.Name /\ r.Email = last.user.Email
            /\ r.Status = last.user.Status /\ r.CreatedAt = last.user.CreatedAt
       /\ (last.req.Name = NilPtr /\ last.req.Email = NilPtr)
            => (last.user.Name = last.old.Name /\ last.user.Email = last.old.Email)

\* An update with only a status changed the status of a row and was answered 200.
C8_Witness ==
    /\ last.op = "update" /\ last.status = StatusOK
    /\ last.req.Name = NilPtr /\ last.req.Email = NilPtr /\ last.req.Status # NilPtr
    /\ last.old.Status # last.user.Status
    /\ last.user.Name = "Al"

\* C9: an update that fails is answered 404 when no live row has the id, 409
\* when its email differs from the loaded row's and another live row holds it,
\* and 500 otherwise.
C9_UpdateFailureStatus ==
    (last.op = "update" /\ last.status # StatusBadRequest /\ last.err # NilErr)
    => IF ~Down(last) /\ last.id \notin LiveIDs
       THEN last.status = StatusNotFound
       ELSE IF /\ ~Down(last) /\ last.req.Email # NilPtr
               /\ Deref(last.req.Email) # last.old.Email
               /\ \E r \in Live(users) : r.ID # last.id /\ r.Email = Deref(last.req.Email)
       THEN last.status = StatusConflict
       ELSE last.status = StatusInternalServerError

\* The queries that reach the repository.
ValidQueries == {Validate(q) : q \in SeqQueries \ {MalformedQuery}}

\* C10: no step removes a row from the table, and a soft-deleted row is not
\* returned by GetByID, GetByEmail, Exists or List, nor counted in List's total.
C10_SoftDelete ==
    /\ [][\A r \in users : \E n \in users' : n.ID = r.ID /\ n.CreatedAt = r.CreatedAt]_vars
    /\ [](\A r \in users \ Live(users) :
            /\ RepoGetByID(users, r.ID, FALSE).user = NilUser
            /\ RepoGetByEmail(users, r.Email, FALSE).user = NilUser
            /\ ~RepoExists(users, r.ID, FALSE).exists
            /\ \A q \in ValidQueries :
                 /\ \A i \in DOMAIN RepoListFind(users, q, FALSE).users :
                      RepoListFind(users, q, FALSE).users[i].ID # r.ID
                 /\ RepoListCount(users, q, FALSE).total
                      <= Cardinality({x \in users : ~x.DeletedAt})
                 /\ (q.Status = "" /\ q.Search = "")
                      => RepoListCount(users, q, FALSE).total
                           = Cardinality({x \in users : ~x.DeletedAt}))

\* The only row was soft-deleted, and a list begun after that was answered
\* with no row and a total of 0.
C10_Witness ==
    /\ DeletedIDs # {} /\ LiveIDs = {}
    /\ last.op = "list" /\ last.status = StatusOK /\ last.after = 2
    /\ last.req.Status = "" /\ last.total = 0 /\ last.data = <<>>

\* Queries with a limit or an offset outside the bounds, and inside them.
C11_Queries ==
    {Query(o, l, st, "") : o \in {-2, -1, 0, 1}, l \in {-1, 0, 1, 20, 100, 101, 500},
                           st \in {"", StatusActive}}

\* C11: on every table, a list with a limit <= 0 or > 100 is answered as the
\* same list with limit 20 is, and a list with a negative offset as the same
\* list with offset 0 is; a list that was answered carries the clamped values.
C11_LimitOffsetClamped ==
    /\ \A q \in C11_Queries :
         /\ (q.Limit <= 0 \/ q.Limit > 100)
              => HandlerList(users, q) = HandlerList(users, [q EXCEPT !.Limit = 20])
         /\ q.Offset < 0
              => HandlerList(users, q) = HandlerList(users, [q EXCEPT !.Offset = 0])
    /\ (last.op = "list" /\ last.status = StatusOK)
         => /\ last.req.Limit \in 1..100 /\ last.req.Offset >= 0
            /\ Len(last.data) <= last.req.Limit

\* A list sent with limit 0 was answered with limit 20 and a row in its page.
C11_Witness ==
    /\ last.op = "list" /\ last.status = StatusOK
    /\ last.req.Limit = 20 /\ Len(last.data) >= 1
    /\ HandlerList(users, Query(0, 0, "", "")).limit = 20
    /\ HandlerList(users, Query(-1, 101, "", "")).data # <<>>

\* The live rows of the table with status st.
LiveWithStatus(st) == {r \in users : ~r.DeletedAt /\ r.Status = st}

\* C12: a list filtered by one of the three status values returns live rows of
\* exactly that status, all of them when they fit the page, and its total is
\* the number of live rows of that status.
C12_StatusFilter ==
    /\ \A st \in {StatusActive, StatusInactive, StatusSuspended} :
         LET r == HandlerList(users, Query(0, 0, st, ""))
         IN /\ r.status = StatusOK
            /\ \A i \in DOMAIN r.data : r.data[i] \in LiveWithStatus(st)
            /\ {r.data[i] : i \in DOMAIN r.data} = LiveWithStatus(st)
            /\ r.total = Cardinality(LiveWithStatus(st))
    /\ (last.op = "list" /\ last.status = StatusOK /\ last.req.Status # ""
           /\ last.req.Search = "")
         => /\ \A i \in DOMAIN last.data : last.data[i] \in LiveWithStatus(last.req.Status)
            /\ last.total = Cardinality(LiveWithStatus(last.req.Status))

\* A list filtered by status was answered with a total smaller than the number
\* of live rows of the table.
C12_Witness ==
    /\ last.op = "list" /\ last.status = StatusOK
    /\ last.req.Status = StatusInactive /\ last.req.Search = ""
    /\ last.total = 1 /\ Len(last.data) = 1
    /\ Cardinality(Live(users)) = 2

\* C13, as claimed: the create of {"name":"A","email":"a@x.com"}, while no row
\* holds the email, is answered 201 with status active.
C13_RoundTripAsClaimed ==
    (/\ last.op = "create" /\ last.req = Body("A", "a@x.com", "")
     /\ \A r \in users : r.Email = "a@x.com" => r = last.user)
    => (last.status = StatusCreated /\ last.user.Status = StatusActive)

\* C13, amended: a create without a status, with a name of 2 to 100 characters
\* and an email that no row holds, is answered 201; every create without a
\* status that is answered 201 returns and stores status active; and the get
\* of the created id that follows it returns status active.
C13_DefaultStatusRoundTrip ==
    /\ []((/\ last.op = "create" /\ last.req.json /\ CreateValid(last.req)
           /\ last.req.Status = "" /\ last.fresh /\ ~Down(last))
          => last.status = StatusCreated)
    /\ []((last.op = "create" /\ last.status = StatusCreated /\ last.req.Status = "")
          => (/\ last.user.Status = StatusActive
              /\ last.user \in users))
    /\ [][(/\ last.op = "create" /\ last.status = StatusCreated /\ last.req.Status = ""
           /\ last'.seq = last.seq + 1 /\ last'.after = last.seq
           /\ last'.op = "get" /\ last'.id = last.user.ID
           /\ last'.status # StatusBadRequest /\ ~Down(last'))
          => (/\ last'.status = StatusOK
              /\ last'.user.Status = StatusActive
              /\ last'.user.Name = last.req.Name
              /\ last'.user.Email = last.req.Email)]_vars

\* A create without a status made the only row, and the get of its id that
\* followed returned status active.
C13_Witness ==
    /\ nreq = 2 /\ last.seq = 2 /\ last.after = 1
    /\ last.op = "get" /\ last.status = StatusOK
    /\ last.user.Status = StatusActive /\ last.user.Name = "Al"
    /\ users = {last.user}

\* The input of the request that response a answers is one that the handlers
\* are to refuse: a body or a query that does not parse, an :id that is not an
\* unsigned integer of 32 bits, an empty name or email in a create, a name of
\* fewer than 2 or more than 100 characters in a create or an update.
BadInput(a) ==
    \/ /\ a.op \in {"get", "update", "delete"}
       /\ \/ a.param = ""
          \/ \E i \in 1..Len(a.param) : SubSeq(a.param, i, i) \notin {Digits[d] : d \in 1..10}
          \/ Len(a.param) > 10
          \/ Len(a.param) = 10 /\ DecimalGreater(a.param, "4294967295")
    \/ /\ a.op = "create"
       /\ \/ ~a.req.json
          \/ a.req.Name = "" \/ a.req.Email = ""
          \/ Len(a.req.Name) < 2 \/ Len(a.req.Name) > 100
    \/ /\ a.op = "update"
       /\ \/ ~a.req.json
          \/ a.req.Name # NilPtr /\ (Len(a.req.Name[1]) < 2 \/ Len(a.req.Name[1]) > 100)
    \/ /\ a.op = "list"
       /\ ~a.req.parses

ValidEmailShape(e) == \E i \in 2..(Len(e) - 1) : SubSeq(e, i, i) = "@"

\* C15: every row holds an email of the shape of an email address, and a
\* create or an update whose email is not empty and not of that shape is
\* answered 400.
C15_EmailShapeValidated ==
    /\ \A r \in users : ValidEmailShape(r.Email)
    /\ (last.op = "create" /\ last.req.json /\ last.req.Email # ""
           /\ ~ValidEmailShape(last.req.Email))
         => last.status = StatusBadRequest
    /\ (last.op = "update" /\ last.req.json /\ last.req.Email # NilPtr
           /\ last.req.Email # Ptr("") /\ ~ValidEmailShape(last.req.Email[1]))
         => last.status = StatusBadRequest

\* Worker p goes from the handler to step pc of its request.
Enters(p, pc) == inflight[p].pc # pc /\ inflight'[p].pc = pc

\* The step is the first of a request, and answers it with response last'.
AnswersAtOnce == last'.seq # last.seq /\ nreq' = nreq + 1

\* C16: service.Delete reaches repository.Delete only from the existence check
\* and only when the check found a live row; a row is marked deleted only by a
\* request that passed the check for its id; a delete whose check found no row
\* fails with "user not found", one whose check failed with "failed to check
\* user existence", and neither changes the table.
C16_ExistsBeforeDelete ==
    [][/\ \A p \in Procs :
            Enters(p, "delete_delete")
            => (/\ inflight[p].pc = "idle" /\ users' = users
                /\ inflight'[p].id \in LiveIDs)
       /\ \A r \in users, n \in users' :
            (r.ID = n.ID /\ ~r.DeletedAt /\ n.DeletedAt)
            => \E p \in Procs : /\ inflight[p].pc = "delete_delete" /\ inflight[p].id = r.ID
                                /\ inflight'[p].pc = "idle"
       /\ (AnswersAtOnce /\ last'.op = "delete" /\ last'.status # StatusBadRequest)
            => (/\ users' = users
                /\ \A p \in Procs : ~Enters(p, "delete_delete")
                /\ IF Down(last')
                   THEN HasPrefix(last'.err.msg, "failed to check user existence")
                   ELSE /\ last'.id \notin LiveIDs
                        /\ last'.err.msg = "user not found with id " \o Itoa(last'.id))
      ]_vars

\* The second delete of a user failed with "user not found", and the row is
\* still there, marked deleted by the first.
C16_Witness ==
    /\ last.op = "delete" /\ last.err.msg = "user not found with id 1"
    /\ last.after = 2 /\ DeletedIDs = {1} /\ LiveIDs = {}

\* C17: service.Create reaches repository.Create only from the duplicate check
\* and only when no live row holds the email (GetByEmail's not-found); rows are
\* inserted only by a request that passed the check; a create whose check
\* found a row fails with "email already exists", one whose check failed
\* otherwise with "failed to check email duplication", and both return no user
\* and leave the table as it was.
C17_CreateDuplicateCheck ==
    [][/\ \A p \in Procs :
            Enters(p, "create_insert")
            => (/\ inflight[p].pc = "idle" /\ users' = users
                /\ \A r \in Live(users) : r.Email # inflight'[p].req.Email)
       /\ (\E n \in users' : \A r \in users : r.ID # n.ID)
            => \E p \in Procs : inflight[p].pc = "create_insert" /\ inflight'[p].pc = "idle"
       /\ (AnswersAtOnce /\ last'.op = "create" /\ last'.status # StatusBadRequest)
            => (/\ users' = users /\ last'.user = NilUser
                /\ \A p \in Procs : ~Enters(p, "create_insert")
                /\ IF Down(last')
                   THEN HasPrefix(last'.err.msg, "failed to check email duplication")
                   ELSE /\ \E r \in Live(users) : r.Email = last'.req.Email
                        /\ last'.err.msg = "email already exists: " \o last'.req.Email)
      ]_vars

\* A create passed the duplicate check although a row, soft-deleted, holds its
\* email: GetByEmail's not-found let it go on to the insert.
C17_Witness ==
    \E p \in Procs :
        /\ inflight[p].pc = "create_insert"
        /\ \E r \in users : r.DeletedAt /\ r.Email = inflight[p].req.Email

\* C18: service.GetByID returns the live row of the id, with that id, and no
\* error; "user not found with id N" and no user when no live row has the id;
\* "failed to get user: ..." and no user when the repository failed otherwise;
\* the text of the one failure does not begin as the other's does.
C18_GetByIDFailuresDistinct ==
    (last.op = "get" /\ last.status # StatusBadRequest)
    => IF Down(last)
       THEN /\ HasPrefix(last.err.msg, "failed to get user: ") /\ last.user = NilUser
            /\ ~HasPrefix(last.err.msg, "user not found")
       ELSE IF last.id \in LiveIDs
       THEN /\ last.err = NilErr
            /\ last.user \in Live(users) /\ last.user.ID = last.id
       ELSE /\ last.err.msg = "user not found with id " \o Itoa(last.id)
            /\ last.user = NilUser
            /\ ~HasPrefix(last.err.msg, "failed to get user")

\* The get of a stored user failed because the database was unreachable.
C18_Witness ==
    /\ last.op = "get" /\ last.id \in LiveIDs
    /\ HasPrefix(last.err.msg, "failed to get user: ") /\ last.user = NilUser

\* The ids of the rows of table tbl.
IDs(tbl) == {r.ID : r \in tbl}

\* Worker p's step is the insert of a create.
Inserts(p) == inflight[p].pc = "create_insert" /\ inflight'[p].pc = "idle"

\* C19: no two rows have the same id, and ids are positive; every row keeps
\* its id (the row inserted at a tick has the same id ever after); a step that
\* is no insert leaves the set of ids as it is; a create answered 201 returns
\* an id that no row had before; an update answered 200 returns the id of its
\* path, which is the id of the row it loaded.
C19_IdsUniqueImmutable ==
    /\ [](\A r1 \in users, r2 \in users : r1.ID = r2.ID => r1 = r2)
    /\ [](\A r \in users : r.ID >= 1)
    /\ [][/\ \A r \in users : \E n \in users' : n.ID = r.ID /\ n.CreatedAt = r.CreatedAt
          /\ (\A p \in Procs : ~Inserts(p)) => IDs(users') = IDs(users)
          /\ (last'.seq # last.seq /\ last'.op = "create" /\ last'.status = StatusCreated)
               => (last'.user.ID \notin IDs(users) /\ last'.user.ID \in IDs(users'))
          /\ (last'.seq # last.seq /\ last'.op = "update" /\ last'.status = StatusOK)
               => (/\ last'.user.ID = last'.id /\ last'.old.ID = last'.id
                   /\ IDs(users') = IDs(users))
         ]_vars

\* Two creates were answered with two ids, and the update of the second user
\* that followed returned id 2.
C19_Witness ==
    /\ IDs(users) = {1, 2}
    /\ last.op = "update" /\ last.status = StatusOK /\ last.id = 2 /\ last.user.ID = 2
    /\ last.user # last.old

\* The step hands a request to a route handler.
ReachesHandler ==
    \/ nreq' = nreq + 1 /\ ~(last'.seq # last.seq /\ last'.status = StatusUnauthorized)
    \/ \E p \in Procs : inflight[p].pc \in {"idle", "next"}
                        /\ inflight'[p].pc \notin {"idle", "next"}

\* C20: with an API key configured, a request reaches a handler, of whatever
\* route, only from the middleware and only with the header "Bearer <key>";
\* every other header is answered 401, by the middleware, with no handler step
\* and the table unchanged; the header "Bearer <key>" is never answered 401.
\* With no key configured nothing is answered 401.
C20_APIKeyGate ==
    /\ \A h \in Headers :
         /\ APIKeyPasses([DefaultConfig EXCEPT !.APIKey = "k1"], h) <=> h = "Bearer k1"
         /\ APIKeyPasses(DefaultConfig, h)
    /\ [](cfg.APIKey = ""
            => (last.status # StatusUnauthorized /\ \A p \in Procs : inflight[p].pc # "next"))
    /\ [](\A p \in Procs : inflight[p].pc = "next" => inflight[p].hdr = "Bearer " \o cfg.APIKey)
    /\ [](last.status = StatusUnauthorized
            => (last.op = "auth" /\ last.hdr # "Bearer " \o cfg.APIKey))
    /\ [][(cfg.APIKey # "" /\ ReachesHandler)
            => \E p \in Procs : /\ inflight[p].pc = "next" /\ inflight'[p].pc # "next"
                                /\ inflight[p].hdr = "Bearer " \o cfg.APIKey]_vars
    /\ [][(last'.seq # last.seq /\ last'.status = StatusUnauthorized)
            => (/\ users' = users /\ ~ReachesHandler
                /\ \A p \in Procs : inflight'[p] = inflight[p])]_vars

\* A request with another key was answered 401 after one with the configured
\* key had created a user.
C20_Witness ==
    /\ cfg.APIKey = "k1"
    /\ last.status = StatusUnauthorized /\ last.hdr = "Bearer k2"
    /\ users # {}

\* C21: a readiness request whose ping was refused, or got no answer within
\* the second, or had no connection to ping, is answered 503
\* SERVICE_UNAVAILABLE with database=fail, and only such a one is; every other
\* is answered 200 with database=ok.  A liveness request is answered 200 with
\* no error whatever happened to the database before it.
C21_ReadinessLiveness ==
    /\ \A ping \in Pings : (HealthCheck(ping) # NilErr) <=> ping # "ok"
    /\ HealthCheck("timeout") = DeadlineExceeded
    /\ [](last.op = "ready"
            => IF last.ping # "ok"
               THEN /\ last.status = StatusServiceUnavailable
                    /\ last.code = "SERVICE_UNAVAILABLE" /\ last.checks = "fail"
               ELSE /\ last.status = StatusOK /\ last.checks = "ok" /\ last.code = "")
    /\ [](last.op = "health"
            => (last.status = StatusOK /\ last.err = NilErr /\ last.checks = ""))
    /\ [][(last'.seq # last.seq /\ last'.op \in {"health", "ready"})
             => users' = users]_vars

\* The ping of a readiness request got no answer within the second, and the
\* request was answered 503 with database=fail.
C21_Witness ==
    /\ last.op = "ready" /\ last.ping = "timeout" /\ last.err = DeadlineExceeded
    /\ last.status = StatusServiceUnavailable /\ last.checks = "fail"

\* C22: a row that is marked deleted is marked deleted ever after, whatever
\* requests are served at the same time, and so is not returned by GetByID or
\* List afterwards.
C22_DeletedStaysDeleted ==
    [][\A r \in users : r.DeletedAt => \A n \in users' : n.ID = r.ID => n.DeletedAt]_vars

\* Update requests a and b set disjoint fields: one only the name, the other
\* only the status.
DisjointFields(a, b) ==
    /\ a.Name # NilPtr /\ a.Email = NilPtr /\ a.Status = NilPtr
    /\ b.Name = NilPtr /\ b.Email = NilPtr /\ b.Status # NilPtr

\* C23: when two updates of the same user, served at the same time (the second
\* began before the first was answered), one setting only the name and the
\* other only the status, were both answered 200, the stored row carries the
\* new name and the new status.
C23_DisjointUpdatesBothApply ==
    [][(/\ last.op = "update" /\ last.status = StatusOK
        /\ last'.seq = last.seq + 1 /\ last'.after < last.seq
        /\ last'.op = "update" /\ last'.status = StatusOK /\ last'.id = last.id
        /\ (DisjointFields(last.req, last'.req) \/ DisjointFields(last'.req, last.req)))
       => \E r \in users' :
            /\ r.ID = last.id
            /\ r.Name = Deref(IF last.req.Name # NilPtr THEN last.req.Name
                               ELSE last'.req.Name)
            /\ r.Status = Deref(IF last.req.Status # NilPtr THEN last.req.Status
                                 ELSE last'.req.Status)]_vars

\* C24: a create with the email of a soft-deleted row, and an update of a live
\* row that changes its email to that of a soft-deleted row, is answered 409
\* and leaves no live row with that email (the database being reachable).
C24_DeletedEmailConflicts ==
    /\ (/\ last.op = "create" /\ last.req.json /\ CreateValid(last.req) /\ ~Down(last)
         /\ \E r \in users : r.DeletedAt /\ r.Email = last.req.Email)
        => (/\ last.status = StatusConflict
            /\ \A r \in Live(users) : r.Email # last.req.Email)
    /\ (/\ last.op = "update" /\ last.status # StatusBadRequest /\ ~Down(last)
         /\ last.id \in LiveIDs /\ last.req.Email # NilPtr
         /\ \E r \in users : r.DeletedAt /\ r.ID # last.id /\ r.Email = Deref(last.req.Email))
        => (/\ last.status = StatusConflict
            /\ \A r \in Live(users) : r.Email # Deref(last.req.Email))

\* C25: service.Update goes from the load to the duplicate check exactly when
\* the request has an email other than the loaded row's, and to the save
\* otherwise; the check changes neither the table nor the loaded row, and a
\* failing check returns before the save; "email already exists" comes from
\* the check only, so never from an update whose email is the loaded row's.
C25_UpdateEmailCheck ==
    /\ [](\A p \in Procs :
            inflight[p].pc = "update_check"
            => /\ inflight[p].req.Email # NilPtr
               /\ inflight[p].req.Email[1] # inflight[p].user.Email
               /\ inflight[p].user.ID = inflight[p].id)
    /\ []((last.op = "update" /\ last.req.Email # NilPtr /\ last.old # NilUser
             /\ last.req.Email[1] = last.old.Email)
           => ~HasPrefix(last.err.msg, "email already exists"))
    /\ [][/\ \A p \in Procs :
              (inflight[p].pc = "idle" /\ inflight'[p].pc \in {"update_check", "update_save"})
              => /\ users' = users
                 /\ inflight'[p].user \in Live(users)
                 /\ inflight'[p].pc = "update_check"
                      <=> (/\ inflight'[p].req.Email # NilPtr
                           /\ inflight'[p].req.Email[1] # inflight'[p].user.Email)
          /\ \A p \in Procs :
              inflight[p].pc = "update_check"
              => /\ inflight'[p].pc \in {"update_check", "update_save", "idle"}
                 /\ inflight'[p].pc # "update_check" => users' = users
                 /\ inflight'[p].pc = "update_save"
                      => (/\ inflight'[p].user = inflight[p].user
                          /\ \A r \in Live(users) : r.Email # inflight[p].req.Email[1])
                 /\ inflight'[p].pc = "idle"
                      => (/\ last'.op = "update" /\ last'.err # NilErr
                          /\ last'.old = inflight[p].user /\ last'.user = NilUser
                          /\ IF Down(last')
                             THEN HasPrefix(last'.err.msg, "failed to check email duplication")
                             ELSE /\ last'.err.msg = "email already exists: "
                                                        \o inflight[p].req.Email[1]
                                  /\ \E r \in Live(users) :
                                       r.Email = inflight[p].req.Email[1])
          /\ (last'.seq # last.seq /\ last'.op = "update"
                 /\ HasPrefix(last'.err.msg, "email already exists"))
              => \E p \in Procs : inflight[p].pc = "update_check" /\ inflight'[p].pc = "idle"
         ]_vars

\* An update that carried the email its row already had was answered 200.
C25_Witness ==
    /\ last.op = "update" /\ last.status = StatusOK
    /\ last.req.Email # NilPtr /\ last.req.Email[1] = last.old.Email
    /\ last.user.Email = last.old.Email

\* Queries as they reach the repository, with offsets up to and past the end
\* of the table.
C26_Queries ==
    {Query(o, l, st, "") : o \in 0..3, l \in {1, 2, 100}, st \in {"", StatusInactive}}

\* The live rows with the status of query q, when q has one.
C26_Matching(q) == {r \in users : ~r.DeletedAt /\ (q.Status # "" => r.Status = q.Status)}

\* page is the rows of C26_Matching(q) at the positions q.Offset to
\* q.Offset + q.Limit - 1 in the order of created_at descending: it is as long
\* as the rows from that offset allow and the limit permits, and its i-th row
\* is the matching row with q.Offset + i - 1 matching rows created after it.
C26_IsPage(page, q) ==
    LET n == Cardinality(C26_Matching(q))
        rest == IF n > q.Offset THEN n - q.Offset ELSE 0
    IN /\ Len(page) = IF rest < q.Limit THEN rest ELSE q.Limit
       /\ \A i \in DOMAIN page :
            /\ page[i] \in C26_Matching(q)
            /\ Cardinality({r \in C26_Matching(q) : r.CreatedAt > page[i].CreatedAt})
                 = q.Offset + i - 1

\* C26: on every table, repository.List returns the page of its query, of at
\* most limit rows, and as total the number of all live matching rows,
\* whatever the offset and the limit; past the end the page is empty and the
\* total the same.  A list that was answered carries such a page and total.
C26_ListPageAndTotal ==
    /\ \A q \in C26_Queries :
         LET page == RepoListFind(users, q, FALSE).users
             total == RepoListCount(users, q, FALSE).total
         IN /\ C26_IsPage(page, q)
            /\ Len(page) <= q.Limit
            /\ total = Cardinality(C26_Matching(q))
            /\ q.Offset >= total => page = <<>>
    /\ (last.op = "list" /\ last.status = StatusOK /\ last.req.Search = "")
         => /\ C26_IsPage(last.data, last.req)
            /\ last.total = Cardinality(C26_Matching(last.req))

\* A list with offset 1 and limit 1 of a table of two live rows was answered
\* with the older row alone and a total of 2; the page from offset 2 is empty.
C26_Witness ==
    /\ last.op = "list" /\ last.status = StatusOK
    /\ last.req.Offset = 1 /\ last.req.Limit = 1 /\ last.req.Status = ""
    /\ last.req.Search = ""
    /\ Cardinality(Live(users)) = 2
    /\ last.total = 2 /\ Len(last.data) = 1 /\ last.data[1].ID = 1
    /\ RepoListFind(users, Query(2, 1, "", ""), FALSE).users = <<>>

\* Whether string s contains string sub.
Contains(s, sub) ==
    \E i \in 1..(Len(s) - Len(sub) + 1) : SubSeq(s, i, i + Len(sub) - 1) = sub

\* The live rows with status st whose name or email contains search, letter
\* case aside.
C27_Matching(st, search) ==
    {r \in users :
        /\ ~r.DeletedAt /\ r.Status = st
        /\ \/ Contains(ToLower(r.Name), ToLower(search))
           \/ Contains(ToLower(r.Email), ToLower(search))}

\* Search strings: part of a name in another letter case, part of every
\* email, and strings that no name or email of the table contains.
C27_Searches == {"AL", "x.c", "zz", "_", "a_x"}

\* C27: on every table, a list with a status and a search string returns
\* exactly the live rows of that status whose name or email contains the
\* string, letter case aside, and counts exactly those.
C27_StatusAndSearch ==
    \A st \in {StatusActive, StatusInactive}, se \in C27_Searches :
        LET r == HandlerList(users, Query(0, 0, st, se))
        IN /\ r.status = StatusOK
           /\ {r.data[i] : i \in DOMAIN r.data} = C27_Matching(st, se)
           /\ r.total = Cardinality(C27_Matching(st, se))

\* C28: the step in which a create, an update or a delete is answered with a
\* status of 400 or more leaves the table as it was, and so does every step of
\* a request that does not answer it: the table changes only in the step that
\* answers a create with 201, an update with 200 or a delete with 204.
C28_FailureLeavesTable ==
    [][/\ (last'.seq # last.seq /\ last'.op \in {"create", "update", "delete"}
              /\ last'.status >= 400)
           => users' = users
       /\ last'.seq = last.seq => users' = users
       /\ users' # users
           => (/\ last'.seq = last.seq + 1 /\ last'.err = NilErr
               /\ <<last'.op, last'.status>> \in {<<"create", StatusCreated>>,
                                                  <<"update", StatusOK>>,
                                                  <<"delete", StatusNoContent>>})]_vars

\* A create that had passed the duplicate check was refused by the database
\* for its status, answered 500, and the table holds the one row it held before.
C28_Witness ==
    /\ last.op = "create" /\ last.status = StatusInternalServerError
    /\ RootIs(last.err, CheckViolated) /\ last.fresh
    /\ Cardinality(users) = 1
    /\ \A r \in users : r.Email # last.req.Email /\ r.Status # last.req.Status

\* The value that a limit and an offset are clamped to.
ClampedLimit(l) == IF l >= 1 /\ l <= 100 THEN l ELSE 20
ClampedOffset(o) == IF o >= 0 THEN o ELSE 0

\* C29: the pagination of a list response holds the limit and the offset of
\* the request clamped (a limit outside 1..100 is 20, a negative offset 0),
\* never the values sent when they are out of range, and these are the values
\* the page was cut with; clamping a query twice gives what clamping it once
\* gives, and leaves a query within the bounds as it is.
C29_EnvelopeClamped ==
    /\ \A q \in C11_Queries :
         /\ Validate(Validate(q)) = Validate(q)
         /\ Validate(q).Limit = ClampedLimit(q.Limit)
         /\ Validate(q).Offset = ClampedOffset(q.Offset)
         /\ Validate(q).Status = q.Status /\ Validate(q).Search = q.Search
    /\ []((last.op = "list" /\ last.status = StatusOK)
           => /\ last.limit = ClampedLimit(last.raw.Limit)
              /\ last.offset = ClampedOffset(last.raw.Offset)
              /\ last.limit \in 1..100 /\ last.offset >= 0
              /\ last.data = RepoListFind(users, [last.raw EXCEPT !.Limit = last.limit,
                                                                  !.Offset = last.offset],
                                           FALSE).users
              /\ Len(last.data) <= last.limit)

\* A list sent with limit 101 and offset -1 was answered with limit 20 and
\* offset 0 in its pagination, and the rows of the table in its page.
C29_Witness ==
    /\ last.op = "list" /\ last.status = StatusOK
    /\ last.raw.Limit = 101 /\ last.raw.Offset = -1
    /\ last.limit = 20 /\ last.offset = 0
    /\ Len(last.data) = 2 /\ last.total = 2

\* The emails of the seed users.
SeedEmails == {SeedUsers[k].Email : k \in DOMAIN SeedUsers}

\* C30: the seed program changes nothing outside a development environment;
\* within its transaction it inserts no seed user whose email it found in a
\* live row; the table changes only when the transaction commits, and then by
\* all the rows inserted since it began, after which every seed email is held
\* by a live row; a run that ends otherwise (a failed insert, a failed commit)
\* leaves the table as it was; and no step of a run that follows a completed
\* run inserts a row or changes the table.
C30_SeedAllOrNothing ==
    /\ [][~IsDev(cfg) => (users' = users /\ seed'.pc = "off" /\ seed'.tx = {})]_vars
    /\ [][\A r \in seed'.tx \ seed.tx :
             /\ r.Email \in SeedEmails
             /\ \A x \in users \cup seed.tx : x.Email = r.Email => x.DeletedAt]_vars
    /\ [][(seed.pc = "loop" /\ seed'.pc = "loop" /\ seed'.tx = seed.tx)
             => \E x \in users \cup seed.tx :
                  ~x.DeletedAt /\ x.Email = SeedUsers[seed.i].Email]_vars
    /\ [][users' # users
             => (/\ seed.pc = "loop" /\ seed.i > Len(SeedUsers)
                 /\ seed'.pc = "off" /\ seed'.exit = "completed"
                 /\ users' = users \cup seed.tx
                 /\ Cardinality(seed.tx) = seed'.inserted)]_vars
    /\ [][(seed.pc = "loop" /\ seed'.pc = "off")
             => IF seed'.exit = "completed"
                THEN /\ seed.tx \subseteq users'
                     /\ \A e \in SeedEmails : \E x \in users' : ~x.DeletedAt /\ x.Email = e
                ELSE /\ users' = users
                     /\ \A r \in seed.tx : r \notin users']_vars
    /\ [][seed.exit = "completed"
             => (users' = users /\ seed'.tx = {} /\ seed'.inserted = 0)]_vars
    /\ [](\A r1 \in users, r2 \in users : r1.Email = r2.Email => r1 = r2)

\* The second run of the seed program completed without an insert, on the
\* table that the first run had filled with the seed users.
C30_Witness ==
    /\ seed.runs = 2 /\ seed.pc = "off" /\ seed.exit = "completed" /\ seed.inserted = 0
    /\ \A e \in SeedEmails : \E x \in users : ~x.DeletedAt /\ x.Email = e
    /\ Cardinality(users) = 11

====
